---- MODULE Spec2Model ----
(***************************************************************************)
(* Clone authorization of the CDI project (pkg/clone/auth.go).             *)
(*                                                                         *)
(* A decision call is one invocation of CanUserClonePVC,                   *)
(* CanServiceAccountClonePVC, CanUserCloneSnapshot or                      *)
(* CanServiceAccountCloneSnapshot.  The call either returns at once (same  *)
(* namespace) or builds a SubjectAccessReviewSpec and hands it to          *)
(* sendSubjectAccessReviewsPvc / sendSubjectAccessReviewsSnapshot, which   *)
(* block in client.Create once per query.  The evaluator behind            *)
(* SubjectAccessReviewsProxy is external: each Create returns an arbitrary *)
(* (response, error) pair.                                                 *)
(***************************************************************************)
EXTENDS Integers, Sequences, FiniteSets, TLC

VARIABLES
    callers,   \* the decision calls that exist in this run
    evaluator, \* per resource asked about: what client.Create may return
    pc,        \* per call: "idle", "create" (blocked in client.Create), "done"
    req,       \* per call: the arguments the caller passed
    frame,     \* per call: locals of sendSubjectAccessReviews{Pvc,Snapshot}
    sent,      \* per call: the SubjectAccessReviews handed to client.Create
    answers,   \* per call: the (response, err) pairs client.Create returned
    result     \* per call: the (bool, string, error) the call returned

vars == <<callers, evaluator, pc, req, frame, sent, answers, result>>

Calls == {"c1", "c2"}

----------------------------------------------------------------------------
(* Values *)

NoErr == "nil"
Errors == {"errA", "errB"}

\* cdiv1.SchemeGroupVersion.Group and cdiv1.DataVolumeCloneSourceSubresource
CdiGroup == "cdi.kubevirt.io"
DataVolumeCloneSourceSubresource == "source"

\* map[string][]string / map[string]ExtraValue: nil, or a set of <<key, values>>
NilMap == [isNil |-> TRUE, kv |-> {}]
MakeMap(pairs) == [isNil |-> FALSE, kv |-> pairs]
MapLen(m) == Cardinality(m.kv)

\* *SubjectAccessReview returned by Create: nil, or one with Status.Allowed
NilResponse == [isNil |-> TRUE, Allowed |-> FALSE]
Response(a) == [isNil |-> FALSE, Allowed |-> a]

\* what one client.Create call can return: a non-nil response without error,
\* or an error together with any response (nil or not)
CreateOutcomes ==
    { [response |-> Response(a), err |-> NoErr] : a \in BOOLEAN }
    \cup { [response |-> r, err |-> e] :
             r \in {NilResponse, Response(TRUE), Response(FALSE)}, e \in Errors }

\* the resources a review can ask about (lines 213, 220, 231, 242, 248)
Resources == {"datavolumes", "pods", "pvcs"}

\* an evaluator about which nothing is known
ArbitraryEvaluator == [r \in Resources |-> CreateOutcomes]

----------------------------------------------------------------------------
(* Inputs the callers draw from *)

Namespaces == {"src", "dst", "a:b"}
ObjectNames == {"data-1", "snap/2"}
SaNames == {"sa", "b:c"}

UserInfos ==
    { [Username |-> "alice", Groups |-> << >>, Extra |-> NilMap],
      [Username |-> "carol", Groups |-> <<"dev">>, Extra |-> MakeMap({})],
      [Username |-> "bob", Groups |-> <<"dev", "system:authenticated">>,
       Extra |-> MakeMap({<<"scopes", <<"a", "b">>>>, <<"tenant", <<"t1">>>>})],
      [Username |-> "system:serviceaccount:dst:sa",
       Groups |-> <<"system:serviceaccounts", "system:serviceaccounts:dst",
                    "system:authenticated">>,
       Extra |-> MakeMap({})] }

NoUserInfo == [Username |-> "", Groups |-> << >>, Extra |-> NilMap]

NoReq == [op |-> "", sourceNamespace |-> "", pvcName |-> "",
          targetNamespace |-> "", userInfo |-> NoUserInfo, saName |-> ""]

NoSpec == [User |-> "", Groups |-> << >>, Extra |-> NilMap]
NoFrame == [fn |-> "", namespace |-> "", name |-> "", sarSpec |-> NoSpec, i |-> 0]
NoResult == [allowed |-> FALSE, reason |-> "", err |-> NoErr]

----------------------------------------------------------------------------
(* Pure parts of auth.go *)

\* the (bool, string, error) triple of a return statement
Return(allowed, reason, err) == [allowed |-> allowed, reason |-> reason, err |-> err]

\* SameNamespace with the shortcut lost: no pair of namespaces counts as equal
SameNamespace_Never(sourceNamespace, targetNamespace) == FALSE

\* lines 46, 69, 90, 113
SameNamespace(sourceNamespace, targetNamespace) == sourceNamespace = targetNamespace

\* NewExtra handing the caller's map on as it is, empty or not
NewExtra_PassThrough(userInfo) == userInfo.Extra

\* lines 50-56 / 94-100
NewExtra(userInfo) ==
    IF MapLen(userInfo.Extra) > 0
    THEN MakeMap({ <<p[1], p[2]>> : p \in userInfo.Extra.kv })
    ELSE NilMap

\* lines 58-62 / 102-106
UserSarSpec(userInfo) ==
    [User |-> userInfo.Username, Groups |-> userInfo.Groups, Extra |-> NewExtra(userInfo)]

\* ServiceAccountUser leaving the namespace out of the principal
ServiceAccountUser_NoNamespace(saNamespace, saName) ==
    "system:serviceaccount:" \o saName

\* lines 73 / 117: fmt.Sprintf("system:serviceaccount:%s:%s", saNamespace, saName)
ServiceAccountUser(saNamespace, saName) ==
    "system:serviceaccount:" \o saNamespace \o ":" \o saName

\* ServiceAccountGroups with the last two groups in the wrong order
ServiceAccountGroups_Reordered(saNamespace) ==
    << "system:serviceaccounts",
       "system:authenticated",
       "system:serviceaccounts:" \o saNamespace >>

\* lines 77-81 / 121-125
ServiceAccountGroups(saNamespace) ==
    << "system:serviceaccounts",
       "system:serviceaccounts:" \o saNamespace,
       "system:authenticated" >>

\* lines 75-82 / 119-126
ServiceAccountSarSpec(saNamespace, saName) ==
    [User |-> ServiceAccountUser(saNamespace, saName),
     Groups |-> ServiceAccountGroups(saNamespace),
     Extra |-> NilMap]

DataVolumeSourceAttributes(namespace, name) ==
    [Namespace |-> namespace, Verb |-> "create", Group |-> CdiGroup,
     Resource |-> "datavolumes", Subresource |-> DataVolumeCloneSourceSubresource,
     Name |-> name]

\* CoreAttributes with Namespace and Name filled from each other's argument
CoreAttributes_Swapped(namespace, resource, name) ==
    [Namespace |-> name, Verb |-> "create", Group |-> "",
     Resource |-> resource, Subresource |-> "", Name |-> namespace]

CoreAttributes(namespace, resource, name) ==
    [Namespace |-> namespace, Verb |-> "create", Group |-> "",
     Resource |-> resource, Subresource |-> "", Name |-> name]

getResourceAttributesPvc(namespace, name) ==
    << DataVolumeSourceAttributes(namespace, name),
       CoreAttributes(namespace, "pods", name) >>

getExplicitResourceAttributeSnapshot(namespace, name) ==
    DataVolumeSourceAttributes(namespace, name)

\* getImplicitResourceAttributesSnapshot with its two entries in the other order
getImplicitResourceAttributesSnapshot_Swapped(namespace, name) ==
    << CoreAttributes(namespace, "pvcs", name),
       CoreAttributes(namespace, "pods", name) >>

getImplicitResourceAttributesSnapshot(namespace, name) ==
    << CoreAttributes(namespace, "pods", name),
       CoreAttributes(namespace, "pvcs", name) >>

\* sar := &SubjectAccessReview{Spec: sarSpec}; sar.Spec.ResourceAttributes = &ra
MakeSar(sarSpec, ra) ==
    [User |-> sarSpec.User, Groups |-> sarSpec.Groups, Extra |-> sarSpec.Extra,
     ResourceAttributes |-> ra]

\* InsufficientPermissions with the two format arguments swapped
InsufficientPermissions_Swapped(user, namespace) ==
    "User " \o namespace \o " has insufficient permissions in clone source namespace "
        \o user

\* lines 156 / 200
InsufficientPermissions(user, namespace) ==
    "User " \o user \o " has insufficient permissions in clone source namespace "
        \o namespace

----------------------------------------------------------------------------
(* sendSubjectAccessReviewsPvc / sendSubjectAccessReviewsSnapshot: what the *)
(* code does with the (response, err) that client.Create returned.  Each   *)
(* yields either the return statement reached or the index of the next     *)
(* query to submit.                                                        *)

Returns(r) == [kind |-> "return", result |-> r, i |-> 0]
Submits(j) == [kind |-> "create", result |-> NoResult, i |-> j]

\* PvcAfterCreate requiring every query to be allowed (AND instead of OR)
PvcAfterCreate_And(f, out) ==
    IF out.err # NoErr THEN Returns(Return(FALSE, "", out.err))
    ELSE IF ~out.response.Allowed
         THEN Returns(Return(FALSE, InsufficientPermissions(f.sarSpec.User, f.namespace), NoErr))
    ELSE IF f.i < Len(getResourceAttributesPvc(f.namespace, f.name))
         THEN Submits(f.i + 1)
    ELSE Returns(Return(TRUE, "", NoErr))

\* PvcAfterCreate without the break: an allowed answer does not end the loop
PvcAfterCreate_NoBreak(f, out) ==
    IF out.err # NoErr THEN Returns(Return(FALSE, "", out.err))
    ELSE IF f.i < Len(getResourceAttributesPvc(f.namespace, f.name))
         THEN Submits(f.i + 1)
    ELSE IF out.response.Allowed THEN Returns(Return(TRUE, "", NoErr))
    ELSE Returns(Return(FALSE, InsufficientPermissions(f.sarSpec.User, f.namespace), NoErr))

\* PvcAfterCreate returning the denial text together with the error
PvcAfterCreate_ErrWithReason(f, out) ==
    IF out.err # NoErr
    THEN Returns(Return(FALSE, InsufficientPermissions(f.sarSpec.User, f.namespace), out.err))
    ELSE IF out.response.Allowed THEN Returns(Return(TRUE, "", NoErr))
    ELSE IF f.i < Len(getResourceAttributesPvc(f.namespace, f.name))
         THEN Submits(f.i + 1)
    ELSE Returns(Return(FALSE, InsufficientPermissions(f.sarSpec.User, f.namespace), NoErr))

\* PvcAfterCreate going on to the next query after an error
PvcAfterCreate_ErrSkips(f, out) ==
    IF out.err # NoErr /\ f.i >= Len(getResourceAttributesPvc(f.namespace, f.name))
    THEN Returns(Return(FALSE, "", out.err))
    ELSE IF out.err = NoErr /\ out.response.Allowed THEN Returns(Return(TRUE, "", NoErr))
    ELSE IF f.i < Len(getResourceAttributesPvc(f.namespace, f.name))
         THEN Submits(f.i + 1)
    ELSE Returns(Return(FALSE, InsufficientPermissions(f.sarSpec.User, f.namespace), NoErr))

\* lines 142-159, Create having returned `out` for the i-th resource attribute
PvcAfterCreate(f, out) ==
    IF out.err # NoErr THEN Returns(Return(FALSE, "", out.err))
    ELSE IF out.response.Allowed THEN Returns(Return(TRUE, "", NoErr))
    ELSE IF f.i < Len(getResourceAttributesPvc(f.namespace, f.name))
         THEN Submits(f.i + 1)
    ELSE Returns(Return(FALSE, InsufficientPermissions(f.sarSpec.User, f.namespace), NoErr))

\* SnapshotAfterExplicit falling through to the implicit queries when allowed
SnapshotAfterExplicit_FallsThrough(f, out) ==
    IF out.err # NoErr THEN Returns(Return(FALSE, "", out.err))
    ELSE IF Len(getImplicitResourceAttributesSnapshot(f.namespace, f.name)) > 0
         THEN Submits(1)
    ELSE Returns(Return(TRUE, "", NoErr))

\* SnapshotAfterExplicit returning nil where it should return the error
SnapshotAfterExplicit_ErrDropped(f, out) ==
    IF out.err # NoErr THEN Returns(Return(FALSE, "", NoErr))
    ELSE IF out.response.Allowed THEN Returns(Return(TRUE, "", NoErr))
    ELSE IF Len(getImplicitResourceAttributesSnapshot(f.namespace, f.name)) > 0
         THEN Submits(1)
    ELSE Returns(Return(TRUE, "", NoErr))

\* lines 172-184, Create having returned `out` for the explicit query
SnapshotAfterExplicit(f, out) ==
    IF out.err # NoErr THEN Returns(Return(FALSE, "", out.err))
    ELSE IF out.response.Allowed THEN Returns(Return(TRUE, "", NoErr))
    ELSE IF Len(getImplicitResourceAttributesSnapshot(f.namespace, f.name)) > 0
         THEN Submits(1)
    ELSE Returns(Return(TRUE, "", NoErr))

\* SnapshotAfterImplicit allowing on the first allowed answer (OR instead of AND)
SnapshotAfterImplicit_Or(f, out) ==
    IF out.err # NoErr THEN Returns(Return(FALSE, "", out.err))
    ELSE IF out.response.Allowed THEN Returns(Return(TRUE, "", NoErr))
    ELSE IF f.i < Len(getImplicitResourceAttributesSnapshot(f.namespace, f.name))
         THEN Submits(f.i + 1)
    ELSE Returns(Return(FALSE, InsufficientPermissions(f.sarSpec.User, f.namespace), NoErr))

\* SnapshotAfterImplicit treating an error as a denial
SnapshotAfterImplicit_ErrDenies(f, out) ==
    IF out.err # NoErr \/ ~out.response.Allowed
    THEN Returns(Return(FALSE, InsufficientPermissions(f.sarSpec.User, f.namespace), NoErr))
    ELSE IF f.i < Len(getImplicitResourceAttributesSnapshot(f.namespace, f.name))
         THEN Submits(f.i + 1)
    ELSE Returns(Return(TRUE, "", NoErr))

\* SnapshotAfterImplicit that keeps asking after a denied answer
SnapshotAfterImplicit_NoStop(f, out) ==
    IF out.err # NoErr THEN Returns(Return(FALSE, "", out.err))
    ELSE IF f.i < Len(getImplicitResourceAttributesSnapshot(f.namespace, f.name))
         THEN Submits(f.i + 1)
    ELSE IF ~out.response.Allowed
         THEN Returns(Return(FALSE, InsufficientPermissions(f.sarSpec.User, f.namespace), NoErr))
    ELSE Returns(Return(TRUE, "", NoErr))

\* lines 192-204, Create having returned `out` for the i-th implicit query
SnapshotAfterImplicit(f, out) ==
    IF out.err # NoErr THEN Returns(Return(FALSE, "", out.err))
    ELSE IF ~out.response.Allowed
         THEN Returns(Return(FALSE, InsufficientPermissions(f.sarSpec.User, f.namespace), NoErr))
    ELSE IF f.i < Len(getImplicitResourceAttributesSnapshot(f.namespace, f.name))
         THEN Submits(f.i + 1)
    ELSE Returns(Return(TRUE, "", NoErr))

----------------------------------------------------------------------------
(* State *)

Init ==
    /\ callers = {"c1"}
    /\ evaluator = ArbitraryEvaluator
    /\ pc = [c \in Calls |-> "idle"]
    /\ req = [c \in Calls |-> NoReq]
    /\ frame = [c \in Calls |-> NoFrame]
    /\ sent = [c \in Calls |-> << >>]
    /\ answers = [c \in Calls |-> << >>]
    /\ result = [c \in Calls |-> NoResult]

\* a return statement of the decision call
Finish(c, r) ==
    /\ pc' = [pc EXCEPT ![c] = "done"]
    /\ result' = [result EXCEPT ![c] = r]

\* the same-namespace return of the four operations: nothing else is touched
ReturnShortcut(c) ==
    /\ Finish(c, Return(TRUE, "", NoErr))
    /\ UNCHANGED <<frame, sent>>

\* entry of sendSubjectAccessReviewsPvc up to its first client.Create
EnterPvc(c, namespace, name, sarSpec) ==
    /\ frame' = [frame EXCEPT ![c] =
          [fn |-> "pvc", namespace |-> namespace, name |-> name,
           sarSpec |-> sarSpec, i |-> 1]]
    /\ sent' = [sent EXCEPT ![c] =
          Append(@, MakeSar(sarSpec, getResourceAttributesPvc(namespace, name)[1]))]
    /\ pc' = [pc EXCEPT ![c] = "create"]
    /\ UNCHANGED result

\* entry of sendSubjectAccessReviewsSnapshot up to its first client.Create
EnterSnapshot(c, namespace, name, sarSpec) ==
    /\ frame' = [frame EXCEPT ![c] =
          [fn |-> "snapshot", namespace |-> namespace, name |-> name,
           sarSpec |-> sarSpec, i |-> 0]]
    /\ sent' = [sent EXCEPT ![c] =
          Append(@, MakeSar(sarSpec, getExplicitResourceAttributeSnapshot(namespace, name)))]
    /\ pc' = [pc EXCEPT ![c] = "create"]
    /\ UNCHANGED result

\* carry on after a Create: return, or build the next review and submit it
Continue(c, step, ras) ==
    IF step.kind = "return"
    THEN /\ Finish(c, step.result)
         /\ UNCHANGED <<frame, sent>>
    ELSE /\ frame' = [frame EXCEPT ![c].i = step.i]
         /\ sent' = [sent EXCEPT ![c] = Append(@, MakeSar(frame[c].sarSpec, ras[step.i]))]
         /\ UNCHANGED <<pc, result>>

----------------------------------------------------------------------------
(* The four operations *)

CanUserClonePVC(c) ==
    /\ c \in callers /\ pc[c] = "idle"
    /\ \E sourceNamespace \in Namespaces, pvcName \in ObjectNames,
          targetNamespace \in Namespaces, userInfo \in UserInfos :
          /\ req' = [req EXCEPT ![c] =
                [op |-> "CanUserClonePVC", sourceNamespace |-> sourceNamespace,
                 pvcName |-> pvcName, targetNamespace |-> targetNamespace,
                 userInfo |-> userInfo, saName |-> ""]]
          /\ IF SameNamespace(sourceNamespace, targetNamespace)
             THEN ReturnShortcut(c)
             ELSE EnterPvc(c, sourceNamespace, pvcName, UserSarSpec(userInfo))
    /\ UNCHANGED <<callers, evaluator, answers>>

CanServiceAccountClonePVC(c) ==
    /\ c \in callers /\ pc[c] = "idle"
    /\ \E pvcNamespace \in Namespaces, pvcName \in ObjectNames,
          saNamespace \in Namespaces, saName \in SaNames :
          /\ req' = [req EXCEPT ![c] =
                [op |-> "CanServiceAccountClonePVC", sourceNamespace |-> pvcNamespace,
                 pvcName |-> pvcName, targetNamespace |-> saNamespace,
                 userInfo |-> NoUserInfo, saName |-> saName]]
          /\ IF SameNamespace(pvcNamespace, saNamespace)
             THEN ReturnShortcut(c)
             ELSE EnterPvc(c, pvcNamespace, pvcName,
                           ServiceAccountSarSpec(saNamespace, saName))
    /\ UNCHANGED <<callers, evaluator, answers>>

CanUserCloneSnapshot(c) ==
    /\ c \in callers /\ pc[c] = "idle"
    /\ \E sourceNamespace \in Namespaces, pvcName \in ObjectNames,
          targetNamespace \in Namespaces, userInfo \in UserInfos :
          /\ req' = [req EXCEPT ![c] =
                [op |-> "CanUserCloneSnapshot", sourceNamespace |-> sourceNamespace,
                 pvcName |-> pvcName, targetNamespace |-> targetNamespace,
                 userInfo |-> userInfo, saName |-> ""]]
          /\ IF SameNamespace(sourceNamespace, targetNamespace)
             THEN ReturnShortcut(c)
             ELSE EnterSnapshot(c, sourceNamespace, pvcName, UserSarSpec(userInfo))
    /\ UNCHANGED <<callers, evaluator, answers>>

CanServiceAccountCloneSnapshot(c) ==
    /\ c \in callers /\ pc[c] = "idle"
    /\ \E pvcNamespace \in Namespaces, pvcName \in ObjectNames,
          saNamespace \in Namespaces, saName \in SaNames :
          /\ req' = [req EXCEPT ![c] =
                [op |-> "CanServiceAccountCloneSnapshot", sourceNamespace |-> pvcNamespace,
                 pvcName |-> pvcName, targetNamespace |-> saNamespace,
                 userInfo |-> NoUserInfo, saName |-> saName]]
          /\ IF SameNamespace(pvcNamespace, saNamespace)
             THEN ReturnShortcut(c)
             ELSE EnterSnapshot(c, pvcNamespace, pvcName,
                                ServiceAccountSarSpec(saNamespace, saName))
    /\ UNCHANGED <<callers, evaluator, answers>>

----------------------------------------------------------------------------
(* client.Create returns and the sender carries on *)

\* Pending reading one review slot shared by all calls: a call sees the
\* review another call blocked in Create has put there
Pending_Shared(c) ==
    LET others == { d \in Calls \ {c} : pc[d] = "create" }
        d == IF others = {} THEN c ELSE CHOOSE o \in others : TRUE
    IN  sent[d][Len(sent[d])]

\* the review call c is blocked on, and what Create may return for it
Pending(c) == sent[c][Len(sent[c])]
CreateReturns(c) == evaluator[Pending(c).ResourceAttributes.Resource]

PvcCreateReturns(c) ==
    /\ pc[c] = "create" /\ frame[c].fn = "pvc"
    /\ \E out \in CreateReturns(c) :
          /\ answers' = [answers EXCEPT ![c] = Append(@, out)]
          /\ Continue(c, PvcAfterCreate(frame[c], out),
                      getResourceAttributesPvc(frame[c].namespace, frame[c].name))
    /\ UNCHANGED <<callers, evaluator, req>>

SnapshotExplicitCreateReturns(c) ==
    /\ pc[c] = "create" /\ frame[c].fn = "snapshot" /\ frame[c].i = 0
    /\ \E out \in CreateReturns(c) :
          /\ answers' = [answers EXCEPT ![c] = Append(@, out)]
          /\ Continue(c, SnapshotAfterExplicit(frame[c], out),
                      getImplicitResourceAttributesSnapshot(frame[c].namespace, frame[c].name))
    /\ UNCHANGED <<callers, evaluator, req>>

SnapshotImplicitCreateReturns(c) ==
    /\ pc[c] = "create" /\ frame[c].fn = "snapshot" /\ frame[c].i > 0
    /\ \E out \in CreateReturns(c) :
          /\ answers' = [answers EXCEPT ![c] = Append(@, out)]
          /\ Continue(c, SnapshotAfterImplicit(frame[c], out),
                      getImplicitResourceAttributesSnapshot(frame[c].namespace, frame[c].name))
    /\ UNCHANGED <<callers, evaluator, req>>

Next ==
    \E c \in Calls :
        \/ CanUserClonePVC(c)
        \/ CanServiceAccountClonePVC(c)
        \/ CanUserCloneSnapshot(c)
        \/ CanServiceAccountCloneSnapshot(c)
        \/ PvcCreateReturns(c)
        \/ SnapshotExplicitCreateReturns(c)
        \/ SnapshotImplicitCreateReturns(c)

Spec == Init /\ [][Next]_vars

\* Every client.Create that was entered returns: a call blocked in Create is
\* eventually handed a response or an error.
Fairness ==
    \A c \in Calls :
        /\ WF_vars(PvcCreateReturns(c))
        /\ WF_vars(SnapshotExplicitCreateReturns(c))
        /\ WF_vars(SnapshotImplicitCreateReturns(c))

FairSpec == Spec /\ Fairness

----------------------------------------------------------------------------
(* Two callers against an evaluator whose answer depends only on the query *)

\* the answers such an evaluator gives
DeterministicOutcomes ==
    { [response |-> Response(TRUE), err |-> NoErr],
      [response |-> Response(FALSE), err |-> NoErr],
      [response |-> NilResponse, err |-> "errA"],
      [response |-> Response(TRUE), err |-> "errB"] }

DeterministicEvaluators ==
    { [r \in Resources |-> {f[r]}] : f \in [Resources -> DeterministicOutcomes] }

\* the arguments the two callers draw from
ConcInput(r) ==
    /\ r.sourceNamespace \in {"src", "dst"}
    /\ r.targetNamespace \in {"src", "dst"}
    /\ r.pvcName = "data-1"
    /\ r.saName \in {"", "sa"}
    /\ r.userInfo.Username \in {"", "alice", "system:serviceaccount:dst:sa"}

InitConc ==
    /\ callers = Calls
    /\ evaluator \in DeterministicEvaluators
    /\ pc = [c \in Calls |-> "idle"]
    /\ req = [c \in Calls |-> NoReq]
    /\ frame = [c \in Calls |-> NoFrame]
    /\ sent = [c \in Calls |-> << >>]
    /\ answers = [c \in Calls |-> << >>]
    /\ result = [c \in Calls |-> NoResult]

NextConc ==
    \E c \in Calls :
        \/ CanUserClonePVC(c) /\ ConcInput(req'[c])
        \/ CanServiceAccountClonePVC(c) /\ ConcInput(req'[c])
        \/ CanUserCloneSnapshot(c) /\ ConcInput(req'[c])
        \/ CanServiceAccountCloneSnapshot(c) /\ ConcInput(req'[c])
        \/ PvcCreateReturns(c)
        \/ SnapshotExplicitCreateReturns(c)
        \/ SnapshotImplicitCreateReturns(c)

ConcSpec == InitConc /\ [][NextConc]_vars

\* the answer of a deterministic evaluator to a review
OnlyOutcome(ev, sar) == CHOOSE o \in ev[sar.ResourceAttributes.Resource] : TRUE

\* a sender run from its first Create to its return with no other call
\* around: the result and the reviews submitted
RECURSIVE RunSender(_, _, _)
RunSender(f, submitted, ev) ==
    LET out == OnlyOutcome(ev, submitted[Len(submitted)])
        step == IF f.fn = "pvc" THEN PvcAfterCreate(f, out)
                ELSE IF f.i = 0 THEN SnapshotAfterExplicit(f, out)
                ELSE SnapshotAfterImplicit(f, out)
        ras == IF f.fn = "pvc" THEN getResourceAttributesPvc(f.namespace, f.name)
               ELSE getImplicitResourceAttributesSnapshot(f.namespace, f.name)
    IN  IF step.kind = "return"
        THEN [result |-> step.result, sent |-> submitted]
        ELSE RunSender([f EXCEPT !.i = step.i],
                       Append(submitted, MakeSar(f.sarSpec, ras[step.i])), ev)

\* a whole decision call run alone on the arguments r
RunAlone(r, ev) ==
    IF SameNamespace(r.sourceNamespace, r.targetNamespace)
    THEN [result |-> Return(TRUE, "", NoErr), sent |-> << >>]
    ELSE LET sarSpec ==
                 IF r.op \in {"CanServiceAccountClonePVC", "CanServiceAccountCloneSnapshot"}
                 THEN ServiceAccountSarSpec(r.targetNamespace, r.saName)
                 ELSE UserSarSpec(r.userInfo)
             pvc == r.op \in {"CanUserClonePVC", "CanServiceAccountClonePVC"}
             first == IF pvc
                      THEN getResourceAttributesPvc(r.sourceNamespace, r.pvcName)[1]
                      ELSE getExplicitResourceAttributeSnapshot(r.sourceNamespace, r.pvcName)
         IN  RunSender([fn |-> IF pvc THEN "pvc" ELSE "snapshot",
                        namespace |-> r.sourceNamespace, name |-> r.pvcName,
                        sarSpec |-> sarSpec, i |-> IF pvc THEN 1 ELSE 0],
                       <<MakeSar(sarSpec, first)>>, ev)

TypeOK ==
    /\ callers \subseteq Calls
    /\ \A c \in Calls :
          /\ pc[c] \in {"idle", "create", "done"}
          /\ Len(answers[c]) <= Len(sent[c])
          /\ result[c].allowed \in BOOLEAN

----------------------------------------------------------------------------
(* Vocabulary of the properties *)

PvcOps == {"CanUserClonePVC", "CanServiceAccountClonePVC"}
SnapshotOps == {"CanUserCloneSnapshot", "CanServiceAccountCloneSnapshot"}
ServiceAccountOps == {"CanServiceAccountClonePVC", "CanServiceAccountCloneSnapshot"}
AllOps == PvcOps \cup SnapshotOps

Called(c) == req[c].op \in AllOps
Done(c) == pc[c] = "done"
CrossNamespace(c) == Called(c) /\ req[c].sourceNamespace # req[c].targetNamespace

\* the k-th Create of call c has returned, and how
Answered(c, k) == k \in 1..Len(answers[c])
Errored(c, k) == Answered(c, k) /\ answers[c][k].err # NoErr
SaidAllowed(c, k) ==
    Answered(c, k) /\ answers[c][k].err = NoErr /\ answers[c][k].response.Allowed
SaidDenied(c, k) ==
    Answered(c, k) /\ answers[c][k].err = NoErr /\ ~answers[c][k].response.Allowed
NeverErrored(c) == \A k \in 1..Len(answers[c]) : ~Errored(c, k)

\* the query about `resource` (with the given API group and subresource) was
\* submitted by call c and the evaluator allowed it
QueryAllowed(c, group, resource, subresource) ==
    \E k \in 1..Len(sent[c]) :
        /\ sent[c][k].ResourceAttributes.Verb = "create"
        /\ sent[c][k].ResourceAttributes.Group = group
        /\ sent[c][k].ResourceAttributes.Resource = resource
        /\ sent[c][k].ResourceAttributes.Subresource = subresource
        /\ SaidAllowed(c, k)
ExplicitAllowed(c) == QueryAllowed(c, "cdi.kubevirt.io", "datavolumes", "source")
PodsAllowed(c) == QueryAllowed(c, "", "pods", "")
PvcsAllowed(c) == QueryAllowed(c, "", "pvcs", "")

SubmittedResources(c) ==
    [k \in 1..Len(sent[c]) |-> sent[c][k].ResourceAttributes.Resource]

\* the principal the claims expect for call c
ExpectedPrincipal(c) ==
    IF req[c].op \in ServiceAccountOps
    THEN "system:serviceaccount:" \o req[c].targetNamespace \o ":" \o req[c].saName
    ELSE req[c].userInfo.Username

----------------------------------------------------------------------------
(* Properties *)

\* C1: for each of the four operations, a call whose source namespace equals
\* its target (service-account) namespace has returned (true, "", nil) and has
\* handed nothing to the evaluator's Create, whatever the identity.
C1_SameNamespaceShortcut ==
    \A c \in Calls :
        (Called(c) /\ req[c].sourceNamespace = req[c].targetNamespace) =>
            /\ Done(c)
            /\ result[c] = [allowed |-> TRUE, reason |-> "", err |-> "nil"]
            /\ Len(sent[c]) = 0
            /\ Len(answers[c]) = 0

C1_Witness ==
    \E c \in Calls :
        /\ Done(c)
        /\ req[c].op = "CanServiceAccountCloneSnapshot"
        /\ req[c].sourceNamespace = "a:b" /\ req[c].targetNamespace = "a:b"
        /\ result[c].allowed

\* C2: a finished cross-namespace snapshot clone whose evaluator never
\* errored is allowed exactly when the datavolumes/source query was allowed
\* or both the pods and the pvcs query were allowed; denied-allowed-allowed
\* gives allowed, denied-allowed-denied gives not allowed.
C2_SnapshotPolicy ==
    \A c \in Calls :
        (Done(c) /\ CrossNamespace(c) /\ req[c].op \in SnapshotOps /\ NeverErrored(c)) =>
            /\ result[c].allowed <=>
                   (ExplicitAllowed(c) \/ (PodsAllowed(c) /\ PvcsAllowed(c)))
            /\ (SaidDenied(c, 1) /\ SaidAllowed(c, 2) /\ SaidAllowed(c, 3))
                   => result[c].allowed
            /\ (SaidDenied(c, 1) /\ SaidAllowed(c, 2) /\ SaidDenied(c, 3))
                   => ~result[c].allowed

C2_Witness ==
    \E c \in Calls :
        /\ Done(c) /\ req[c].op \in SnapshotOps
        /\ SubmittedResources(c) = <<"datavolumes", "pods", "pvcs">>
        /\ SaidDenied(c, 1) /\ SaidAllowed(c, 2) /\ SaidAllowed(c, 3)
        /\ result[c].allowed

\* C3: a finished cross-namespace PVC clone whose evaluator never errored is
\* allowed exactly when the datavolumes/source query or the pods query was
\* allowed; an evaluator allowing only the pods query gives (true, "").
C3_PvcPolicy ==
    \A c \in Calls :
        (Done(c) /\ CrossNamespace(c) /\ req[c].op \in PvcOps /\ NeverErrored(c)) =>
            /\ result[c].allowed <=> (ExplicitAllowed(c) \/ PodsAllowed(c))
            /\ (~ExplicitAllowed(c) /\ PodsAllowed(c)) =>
                   (result[c].allowed /\ result[c].reason = "")

C3_Witness ==
    \E c \in Calls :
        /\ Done(c) /\ req[c].op = "CanUserClonePVC"
        /\ req[c].userInfo.Username = "alice" /\ req[c].pvcName = "data-1"
        /\ req[c].sourceNamespace = "src" /\ req[c].targetNamespace = "dst"
        /\ SubmittedResources(c) = <<"datavolumes", "pods">>
        /\ SaidDenied(c, 1) /\ SaidAllowed(c, 2)
        /\ result[c] = [allowed |-> TRUE, reason |-> "", err |-> "nil"]

\* C4: when the evaluator returned an error for a query of a call, at any
\* position, the call has returned exactly that error with allowed = false
\* and an empty reason, whatever came before and whatever response came
\* along with the error.
C4_ErrorPropagated ==
    \A c \in Calls : \A k \in 1..Len(answers[c]) :
        Errored(c, k) =>
            /\ Done(c)
            /\ result[c] = [allowed |-> FALSE, reason |-> "", err |-> answers[c][k].err]

C4_Witness ==
    \E c \in Calls :
        /\ Done(c) /\ Len(answers[c]) = 3
        /\ SaidDenied(c, 1) /\ SaidAllowed(c, 2)
        /\ answers[c][3] = [response |-> [isNil |-> FALSE, Allowed |-> TRUE], err |-> "errB"]
        /\ result[c].err = "errB"

\* C5: in a PVC clone whose first query (datavolumes/source) was allowed, the
\* pods query is never submitted: exactly one Create was made and the call
\* has returned allowed.
C5_PvcShortCircuit ==
    \A c \in Calls :
        (req[c].op \in PvcOps /\ SaidAllowed(c, 1)) =>
            /\ SubmittedResources(c) = <<"datavolumes">>
            /\ Len(answers[c]) = 1
            /\ Done(c) /\ result[c].allowed

C5_Witness ==
    \E c \in Calls :
        /\ req[c].op \in PvcOps /\ SaidAllowed(c, 1) /\ Done(c)
        /\ Len(sent[c]) = 1

\* C6: in a snapshot clone whose explicit query (datavolumes/source) was
\* allowed, neither implicit query is submitted: exactly one Create was made
\* and the call has returned (true, "", nil).
C6_SnapshotExplicitShortCircuit ==
    \A c \in Calls :
        (req[c].op \in SnapshotOps /\ SaidAllowed(c, 1)) =>
            /\ SubmittedResources(c) = <<"datavolumes">>
            /\ Len(answers[c]) = 1
            /\ Done(c)
            /\ result[c] = [allowed |-> TRUE, reason |-> "", err |-> "nil"]

C6_Witness ==
    \E c \in Calls :
        /\ req[c].op \in SnapshotOps /\ SaidAllowed(c, 1) /\ Done(c)
        /\ Len(sent[c]) = 1

\* C7: in a snapshot clone whose explicit query and pods query were both
\* denied, the pvcs query is never submitted: exactly two Creates were made
\* and the call has returned not allowed, with a reason and without error.
C7_SnapshotImplicitStops ==
    \A c \in Calls :
        (req[c].op \in SnapshotOps /\ SaidDenied(c, 1) /\ SaidDenied(c, 2)) =>
            /\ SubmittedResources(c) = <<"datavolumes", "pods">>
            /\ Len(answers[c]) = 2
            /\ Done(c)
            /\ ~result[c].allowed /\ result[c].reason # "" /\ result[c].err = "nil"

C7_Witness ==
    \E c \in Calls :
        /\ req[c].op \in SnapshotOps /\ SaidDenied(c, 1) /\ SaidDenied(c, 2)
        /\ Done(c) /\ Len(sent[c]) = 2

\* C8: a call that finished with a denial (every query answered without
\* error, policy not satisfied) returned allowed = false, no error, and the
\* reason "User <principal> has insufficient permissions in clone source
\* namespace <sourceNamespace>", naming the source and not the target namespace.
C8_DenialReason ==
    \A c \in Calls :
        (Done(c) /\ CrossNamespace(c) /\ NeverErrored(c) /\ ~result[c].allowed) =>
            /\ result[c].err = "nil"
            /\ result[c].reason =
                   "User " \o ExpectedPrincipal(c)
                       \o " has insufficient permissions in clone source namespace "
                       \o req[c].sourceNamespace

C8_Witness ==
    \E c \in Calls :
        /\ Done(c) /\ req[c].op = "CanServiceAccountClonePVC"
        /\ req[c].sourceNamespace = "src" /\ req[c].targetNamespace = "dst"
        /\ req[c].saName = "sa"
        /\ SaidDenied(c, 1) /\ SaidDenied(c, 2)
        /\ result[c].reason =
               "User system:serviceaccount:dst:sa has insufficient permissions in clone source namespace src"

\* C9: the three outputs of every finished call agree: allowed implies an
\* empty reason and no error; an error implies not allowed and an empty
\* reason; the reason is non-empty exactly when not allowed and no error.
C9_ResultConsistent ==
    \A c \in Calls :
        Done(c) =>
            /\ result[c].allowed => (result[c].reason = "" /\ result[c].err = "nil")
            /\ result[c].err # "nil" => (~result[c].allowed /\ result[c].reason = "")
            /\ result[c].reason # "" <=> (~result[c].allowed /\ result[c].err = "nil")

C9_Witness ==
    \E c \in Calls :
        /\ Done(c) /\ req[c].op \in PvcOps
        /\ Errored(c, 2)
        /\ result[c].err # "nil" /\ result[c].reason = "" /\ ~result[c].allowed

\* C10: every query submitted by a service-account operation carries the
\* principal "system:serviceaccount:<saNamespace>:<saName>", the groups
\* "system:serviceaccounts", "system:serviceaccounts:<saNamespace>",
\* "system:authenticated" in that order, and no extra attributes, whatever
\* saNamespace and saName are.
C10_ServiceAccountSubject ==
    \A c \in Calls : \A k \in 1..Len(sent[c]) :
        req[c].op \in ServiceAccountOps =>
            /\ sent[c][k].User =
                   "system:serviceaccount:" \o req[c].targetNamespace \o ":" \o req[c].saName
            /\ sent[c][k].Groups =
                   << "system:serviceaccounts",
                      "system:serviceaccounts:" \o req[c].targetNamespace,
                      "system:authenticated" >>
            /\ sent[c][k].Extra.isNil /\ sent[c][k].Extra.kv = {}

C10_Witness ==
    \E c \in Calls :
        /\ req[c].op = "CanServiceAccountCloneSnapshot"
        /\ req[c].targetNamespace = "a:b" /\ req[c].saName = "b:c"
        /\ Len(sent[c]) = 3
        /\ sent[c][3].User = "system:serviceaccount:a:b:b:c"
        /\ sent[c][3].Groups[2] = "system:serviceaccounts:a:b"

UserOps == {"CanUserClonePVC", "CanUserCloneSnapshot"}

\* s is an initial segment of t
IsPrefix(s, t) == Len(s) <= Len(t) /\ \A k \in 1..Len(s) : s[k] = t[k]

\* C11: every query submitted by a user operation carries the user's
\* username as principal and the user's groups as given; its extra map has
\* the keys and values of the user's when that map is non-empty, and is
\* absent (nil) when the user's map is empty or absent.
C11_UserSubject ==
    \A c \in Calls : \A k \in 1..Len(sent[c]) :
        req[c].op \in UserOps =>
            /\ sent[c][k].User = req[c].userInfo.Username
            /\ sent[c][k].Groups = req[c].userInfo.Groups
            /\ IF req[c].userInfo.Extra.kv # {}
               THEN ~sent[c][k].Extra.isNil /\ sent[c][k].Extra.kv = req[c].userInfo.Extra.kv
               ELSE sent[c][k].Extra.isNil /\ sent[c][k].Extra.kv = {}

C11_Witness ==
    \E c \in Calls :
        /\ req[c].op = "CanUserCloneSnapshot" /\ req[c].userInfo.Username = "bob"
        /\ Len(sent[c]) = 3
        /\ <<"scopes", <<"a", "b">>>> \in sent[c][3].Extra.kv
        /\ sent[c][3].Groups = <<"dev", "system:authenticated">>

\* C12: the queries one call has submitted are an initial segment of
\* datavolumes, pods (PVC clone) or datavolumes, pods, pvcs (snapshot clone):
\* at most 2 resp. 3 Creates, none twice, pods never before datavolumes, and
\* at most one Create outstanding, the next submitted only after the
\* previous one returned.
C12_QueryOrder ==
    \A c \in Calls :
        /\ req[c].op \in PvcOps =>
               IsPrefix(SubmittedResources(c), <<"datavolumes", "pods">>)
        /\ req[c].op \in SnapshotOps =>
               IsPrefix(SubmittedResources(c), <<"datavolumes", "pods", "pvcs">>)
        /\ Len(answers[c]) <= Len(sent[c])
        /\ Len(sent[c]) <= Len(answers[c]) + 1
        /\ (Len(sent[c]) = Len(answers[c]) + 1) <=> (pc[c] = "create")

C12_Witness ==
    \E c \in Calls :
        /\ req[c].op \in SnapshotOps
        /\ SubmittedResources(c) = <<"datavolumes", "pods", "pvcs">>
        /\ Len(answers[c]) = 2 /\ pc[c] = "create"

\* C13: the Create that returned an error is the last evaluator call of its
\* decision: nothing was submitted after it, neither the same query again
\* nor the rest of the sequence.
C13_ErrorIsLastCall ==
    \A c \in Calls : \A k \in 1..Len(answers[c]) :
        Errored(c, k) => (k = Len(sent[c]) /\ k = Len(answers[c]) /\ pc[c] # "create")

C13_Witness ==
    \E c \in Calls :
        /\ req[c].op \in PvcOps /\ Errored(c, 1)
        /\ Len(sent[c]) = 1 /\ Done(c)

\* C16: every submitted query has verb "create", the source namespace as
\* its namespace and the caller's object name as its name, never the target
\* namespace; all queries of one call carry the same principal, groups and
\* extra, and differ only in the resource descriptor.
C16_QueryFrame ==
    \A c \in Calls : \A k \in 1..Len(sent[c]) :
        /\ sent[c][k].ResourceAttributes.Verb = "create"
        /\ sent[c][k].ResourceAttributes.Namespace = req[c].sourceNamespace
        /\ sent[c][k].ResourceAttributes.Namespace # req[c].targetNamespace
        /\ sent[c][k].ResourceAttributes.Name = req[c].pvcName
        /\ \A j \in 1..Len(sent[c]) :
              /\ sent[c][j].User = sent[c][k].User
              /\ sent[c][j].Groups = sent[c][k].Groups
              /\ sent[c][j].Extra = sent[c][k].Extra
              /\ j # k => sent[c][j].ResourceAttributes # sent[c][k].ResourceAttributes

C16_Witness ==
    \E c \in Calls :
        /\ req[c].op = "CanUserCloneSnapshot" /\ Len(sent[c]) = 3
        /\ req[c].sourceNamespace = "a:b" /\ req[c].targetNamespace = "src"
        /\ req[c].pvcName = "snap/2"
        /\ sent[c][2].ResourceAttributes.Namespace = "a:b"
        /\ sent[c][2].ResourceAttributes.Name = "snap/2"

\* the four ways a decision call ends
AllowedByShortcut(c) ==
    /\ Done(c) /\ Len(sent[c]) = 0
    /\ result[c] = [allowed |-> TRUE, reason |-> "", err |-> "nil"]
AllowedByPolicy(c) ==
    /\ Done(c) /\ Len(sent[c]) > 0
    /\ result[c] = [allowed |-> TRUE, reason |-> "", err |-> "nil"]
DeniedWithReason(c) ==
    /\ Done(c) /\ Len(sent[c]) > 0
    /\ ~result[c].allowed /\ result[c].reason # "" /\ result[c].err = "nil"
EvaluatorError(c) ==
    /\ Done(c)
    /\ ~result[c].allowed /\ result[c].reason = "" /\ result[c].err # "nil"

TerminalStates(c) ==
    Cardinality({ t \in {"shortcut", "policy", "denied", "error"} :
        \/ t = "shortcut" /\ AllowedByShortcut(c)
        \/ t = "policy" /\ AllowedByPolicy(c)
        \/ t = "denied" /\ DeniedWithReason(c)
        \/ t = "error" /\ EvaluatorError(c) })

\* C14: provided every Create returns, a call that was made eventually
\* returns, and a call that has returned is in exactly one of the terminal
\* states allowed by shortcut, allowed by policy, denied with reason, or
\* evaluator error; the last only when some Create of that call returned an
\* error, and never when the namespaces are equal.
C14_Terminates ==
    /\ \A c \in Calls : (pc[c] = "create") ~> Done(c)
    /\ \A c \in Calls : Called(c) ~> Done(c)
    /\ [](\A c \in Calls :
            /\ Done(c) => TerminalStates(c) = 1
            /\ EvaluatorError(c) =>
                  /\ \E k \in 1..Len(answers[c]) : Errored(c, k)
                  /\ CrossNamespace(c)
            /\ (Called(c) /\ ~CrossNamespace(c)) => AllowedByShortcut(c))

C14_Witness ==
    \E c \in Calls :
        /\ EvaluatorError(c) /\ req[c].op \in SnapshotOps
        /\ Len(answers[c]) = 3 /\ Errored(c, 3)

\* C15: with two calls whose Creates interleave in any order against an
\* evaluator whose answer depends only on the query, each call submits the
\* queries and returns the result it would submit and return when run alone;
\* nothing of the other call, running or finished, changes them.
C15_Reentrant ==
    \A c \in Calls :
        Called(c) =>
            /\ IsPrefix(sent[c], RunAlone(req[c], evaluator).sent)
            /\ Done(c) =>
                  /\ sent[c] = RunAlone(req[c], evaluator).sent
                  /\ result[c] = RunAlone(req[c], evaluator).result

C15_Witness ==
    \E c, d \in Calls :
        /\ c # d
        /\ Done(c) /\ Len(answers[c]) = 3 /\ req[c].op \in SnapshotOps
        /\ pc[d] = "create" /\ Len(answers[d]) = 1 /\ req[d].op \in PvcOps
        /\ req[c].userInfo # req[d].userInfo

\* the evaluator returns no error for any query
NeverErrs(ev) == \A r \in Resources : \A o \in ev[r] : o.err = "nil"

\* calls c and d were made with the same identity, source namespace, object
\* name and target namespace
SameArguments(c, d) ==
    /\ (req[c].op \in ServiceAccountOps) <=> (req[d].op \in ServiceAccountOps)
    /\ req[c].sourceNamespace = req[d].sourceNamespace
    /\ req[c].pvcName = req[d].pvcName
    /\ req[c].targetNamespace = req[d].targetNamespace
    /\ req[c].userInfo = req[d].userInfo
    /\ req[c].saName = req[d].saName

\* C17: for the same subject, source namespace, object name and target
\* namespace and an evaluator that never errors and answers by the query
\* alone, a snapshot clone that returns allowed implies that the PVC clone
\* returns allowed.
C17_SnapshotStricter ==
    \A c, d \in Calls :
        ( /\ Done(c) /\ Done(d)
          /\ req[c].op \in SnapshotOps /\ req[d].op \in PvcOps
          /\ SameArguments(c, d)
          /\ NeverErrs(evaluator) )
        => (result[c].allowed => result[d].allowed)

C17_Witness ==
    \E c, d \in Calls :
        /\ Done(c) /\ Done(d)
        /\ req[c].op = "CanUserCloneSnapshot" /\ req[d].op = "CanUserClonePVC"
        /\ SameArguments(c, d) /\ NeverErrs(evaluator)
        /\ SaidDenied(c, 1) /\ SaidAllowed(c, 2) /\ SaidAllowed(c, 3)
        /\ SaidDenied(d, 1) /\ SaidAllowed(d, 2)
        /\ result[c].allowed /\ result[d].allowed

\* the converse of C17 fails: with permission for pods only the PVC clone is
\* allowed and the snapshot clone is not
C17_ConverseFails ==
    \E c, d \in Calls :
        /\ Done(c) /\ Done(d)
        /\ req[c].op \in SnapshotOps /\ req[d].op \in PvcOps
        /\ SameArguments(c, d) /\ NeverErrs(evaluator)
        /\ result[d].allowed /\ ~result[c].allowed

\* C18: a service-account operation and the user operation of the same kind
\* called with targetNamespace = saNamespace and the identity
\* system:serviceaccount:<saNamespace>:<saName> with the three service-account
\* groups and an empty extra map submit the same queries and return the same
\* (allowed, reason, error), whatever the evaluator answers.
C18_ServiceAccountAsUser ==
    \A c, d \in Calls :
        ( /\ Done(c) /\ Done(d)
          /\ \/ req[c].op = "CanServiceAccountClonePVC" /\ req[d].op = "CanUserClonePVC"
             \/ req[c].op = "CanServiceAccountCloneSnapshot" /\ req[d].op = "CanUserCloneSnapshot"
          /\ req[d].sourceNamespace = req[c].sourceNamespace
          /\ req[d].pvcName = req[c].pvcName
          /\ req[d].targetNamespace = req[c].targetNamespace
          /\ req[d].userInfo.Username =
                 "system:serviceaccount:" \o req[c].targetNamespace \o ":" \o req[c].saName
          /\ req[d].userInfo.Groups =
                 << "system:serviceaccounts",
                    "system:serviceaccounts:" \o req[c].targetNamespace,
                    "system:authenticated" >>
          /\ req[d].userInfo.Extra.kv = {} )
        => (sent[c] = sent[d] /\ result[c] = result[d])

C18_Witness ==
    \E c, d \in Calls :
        /\ Done(c) /\ Done(d)
        /\ req[c].op = "CanServiceAccountCloneSnapshot" /\ req[d].op = "CanUserCloneSnapshot"
        /\ req[c].sourceNamespace = "src" /\ req[d].sourceNamespace = "src"
        /\ req[c].targetNamespace = "dst" /\ req[d].targetNamespace = "dst"
        /\ req[c].saName = "sa"
        /\ req[d].userInfo.Username = "system:serviceaccount:dst:sa"
        /\ ~req[d].userInfo.Extra.isNil
        /\ Len(sent[c]) = 3 /\ sent[c] = sent[d]
        /\ ~result[c].allowed /\ result[c].reason # "" /\ result[c] = result[d]

====
